---- MODULE Spec2Model ----
(***************************************************************************)
(* A model of src/models.py: the query-conditioned attention module        *)
(* (MatchingAttention), the dialogue step cell (DialogueRNNCell), the      *)
(* sequence runner (DialogueRNN), the length-masked reversal               *)
(* (_reverse_seq), the bidirectional model (Model) and the masked loss     *)
(* (MaskedNLLLoss).                                                        *)
(*                                                                         *)
(* Representation.  Every feature axis (D_m, D_g, D_p, D_e, classes) is    *)
(* carried by one component, so a vector is one number; the widths are     *)
(* kept as configuration, where the constructors test them.  A float is an *)
(* integer of magnitude at most MaxMag or one of PosInf, NegInf, NaN, with *)
(* IEEE rules for the products and sums the code forms (0 * inf = NaN,     *)
(* NaN absorbs).  An attention weight vector is a vector of fractions with *)
(* a common denominator, [n |-> numerators, d |-> denominator]; d = 0 is   *)
(* the result of 0 / 0, NaN.  Speaker slots are 0 .. party-1 as in the     *)
(* code; a tensor row over slots is a sequence indexed slot + 1.  A tensor *)
(* of size 0 (torch.zeros(0)) is the empty sequence.  A tensor the code    *)
(* materialises is written <<>> \o [i \in 1 .. n |-> ...], a tuple of its   *)
(* computed elements.                                                      *)
(***************************************************************************)
EXTENDS Integers, Sequences, FiniteSets, TLC

\* ---------------------------------------------------------------- bounds
\* Finite floats have magnitude at most MaxMag.
MaxMag == 40
\* The padded sequence length of a pass is at most MaxT.
MaxT == 2
\* The number of speakers is 1 .. MaxParty.
MaxParty == 3

\* ---------------------------------------------------------------- floats
PosInf == MaxMag + 1
NegInf == 0 - (MaxMag + 1)
NaN == MaxMag + 2

IsFinite(x) == x >= 0 - MaxMag /\ x <= MaxMag
IsNaN(x) == x = NaN

Sign(x) == IF x > 0 THEN 1 ELSE IF x < 0 THEN 0 - 1 ELSE 0

\* IEEE product: NaN absorbs, 0 * inf = NaN, inf * finite keeps the sign.
FMul(a, b) ==
    IF a = NaN \/ b = NaN THEN NaN
    ELSE IF IsFinite(a) /\ IsFinite(b)
         THEN (IF a * b > MaxMag THEN PosInf
               ELSE IF a * b < 0 - MaxMag THEN NegInf ELSE a * b)
    ELSE IF a = 0 \/ b = 0 THEN NaN
    ELSE IF Sign(a) * Sign(b) > 0 THEN PosInf ELSE NegInf

\* IEEE sum: NaN absorbs, inf + (-inf) = NaN.
FAdd(a, b) ==
    IF a = NaN \/ b = NaN THEN NaN
    ELSE IF IsFinite(a) /\ IsFinite(b)
         THEN (IF a + b > MaxMag THEN PosInf
               ELSE IF a + b < 0 - MaxMag THEN NegInf ELSE a + b)
    ELSE IF IsFinite(a) THEN b
    ELSE IF IsFinite(b) THEN a
    ELSE IF a = b THEN a ELSE NaN

FNeg(a) == IF a = NaN THEN NaN ELSE 0 - a

\* Float equality: NaN equals nothing.
FEq(a, b) == a # NaN /\ b # NaN /\ a = b

RECURSIVE SumSeq(_)
SumSeq(s) == IF Len(s) = 0 THEN 0 ELSE s[1] + SumSeq(Tail(s))

RECURSIVE FSumSeq(_)
FSumSeq(s) == IF Len(s) = 0 THEN 0 ELSE FAdd(s[1], FSumSeq(Tail(s)))

\* The value grid of features and recurrent states: two levels.
Val == {0, 1}

\* 2^s, the positive, increasing weight softmax gives a score s >= 0.
RECURSIVE ExpT(_)
ExpT(s) == IF s <= 0 THEN 1 ELSE 2 * ExpT(s - 1)

\* ------------------------------------------------------------- attention
\* alpha_dim = None
NoneDim == 0 - 1

AttTypes == {"dot", "general", "general2", "concat", "simple"}

\* MatchingAttention.__init__: the two assertions, then the layers the
\* variant string selects.  Any other string builds no layer and passes.
\* Of the attributes set, the object keeps here those forward reads.
MatchingAttentionInit(mem_dim, cand_dim, alpha_dim, att_type) ==
    IF att_type = "concat" /\ alpha_dim = NoneDim
    THEN [err |-> "AssertionError"]
    ELSE IF att_type = "dot" /\ mem_dim # cand_dim
    THEN [err |-> "AssertionError"]
    ELSE [err |-> "none", att_type |-> att_type,
          transform |-> att_type \in {"general", "general2", "concat"},
          vector_prod |-> att_type = "concat"]

\* softmax over the time axis of integer scores: weights 2^s over their sum.
Softmax(scores) ==
    LET w == <<>> \o [i \in 1 .. Len(scores) |-> ExpT(scores[i])]
    IN [n |-> w, d |-> SumSeq(w)]

\* alpha_ * mask.unsqueeze(1): the numerators times the mask.
MaskAlpha(a, mask) ==
    [n |-> <<>> \o [i \in 1 .. Len(a.n) |-> a.n[i] * mask[i]], d |-> a.d]

\* torch.sum(alpha_masked, dim=2): one fraction.
AlphaSum(a) == [n |-> SumSeq(a.n), d |-> a.d]

\* alpha_masked / alpha_sum, elementwise: (n_i/d) / (s.n/s.d).
\* A zero alpha_sum gives 0/0 in every entry: denominator 0.
AlphaDivide(a, s) ==
    [n |-> <<>> \o [i \in 1 .. Len(a.n) |-> a.n[i] * s.d], d |-> a.d * s.n]

\* The weight vector of the 'general2' branch.
General2Alpha(M, x, mask) ==
    LET scores == <<>> \o [i \in 1 .. Len(M) |-> ((x + 1) * M[i]) * mask[i]]
        alpha_ == Softmax(scores)
        alpha_masked == MaskAlpha(alpha_, mask)
        alpha_sum == AlphaSum(alpha_masked)
    IN AlphaDivide(alpha_masked, alpha_sum)

\* Whether a weight vector is defined (no NaN/Inf entry).
AlphaDefined(a) == a.d # 0

\* torch.bmm(alpha, M): the weighted sum, NaN when the weights are.
\* The quotient is rounded down to the value grid.
AttnPool(a, M) ==
    IF a.d = 0 \/ \E i \in 1 .. Len(M) : ~IsFinite(M[i]) THEN NaN
    ELSE SumSeq(<<>> \o [i \in 1 .. Len(M) |-> a.n[i] * M[i]]) \div a.d

\* MatchingAttention.forward.  mask = <<>> stands for mask=None (all ones).
\* The final else branch serves every string that is not dot, general or
\* general2; it reads self.transform and self.vector_prod, which exist
\* only for 'concat'.
MatchingAttentionForward(att, M, x, mask0) ==
    LET mask == IF mask0 = <<>> THEN <<>> \o [i \in 1 .. Len(M) |-> 1] ELSE mask0
    IN IF att.att_type = "dot"
       THEN LET a == Softmax(<<>> \o [i \in 1 .. Len(M) |-> x * M[i]])
            IN [err |-> "none", pool |-> AttnPool(a, M), alpha |-> a]
       ELSE IF att.att_type = "general"
       THEN LET a == Softmax(<<>> \o [i \in 1 .. Len(M) |-> (2 * x) * M[i]])
            IN [err |-> "none", pool |-> AttnPool(a, M), alpha |-> a]
       ELSE IF att.att_type = "general2"
       THEN LET a == General2Alpha(M, x, mask)
            IN [err |-> "none", pool |-> AttnPool(a, M), alpha |-> a]
       ELSE IF ~att.transform \/ ~att.vector_prod
       THEN [err |-> "AttributeError", pool |-> NaN, alpha |-> [n |-> <<>>, d |-> 0]]
       ELSE LET a == Softmax(<<>> \o [i \in 1 .. Len(M) |-> (M[i] + x) % 2])
            IN [err |-> "none", pool |-> AttnPool(a, M), alpha |-> a]


\* ------------------------------------------------------------- the cell
\* party_attention / context_attention = None
NoneAtt == "None"

\* torch.argmax(qmask, 1): the first slot holding the largest entry.
ArgMax(qmask) ==
    LET mx == CHOOSE v \in {qmask[i] : i \in 1 .. Len(qmask)} :
                  \A i \in 1 .. Len(qmask) : qmask[i] <= v
    IN (CHOOSE i \in 1 .. Len(qmask) :
            qmask[i] = mx /\ \A j \in 1 .. (i - 1) : qmask[j] # mx) - 1

\* _select_parties for one batch row: X[idx].
SelectParties(X, idx) == X[idx + 1]

\* The one-hot masks over party slots.
OneHot(party) ==
    {<<>> \o [i \in 1 .. party |-> IF i = k THEN 1 ELSE 0] : k \in 1 .. party}

\* nn.Dropout on one element: zeroed when dropped, passed on otherwise.
Dropout(x, dropped) == FMul(x, IF dropped THEN 0 ELSE 1)

AllFinite(s) == \A i \in 1 .. Len(s) : IsFinite(s[i])

\* The three nn.GRUCell updates, as fixed functions of the concatenated
\* input and the previous hidden state into the value grid (the parity of
\* a weighted sum); a non-finite input gives NaN.
GCell(x, h) ==
    IF ~AllFinite(x) \/ ~IsFinite(h) THEN NaN
    ELSE (x[1] + x[2] + x[3] + h + 1) % 2

PCell(x, h) ==
    IF ~AllFinite(x) \/ ~IsFinite(h) THEN NaN
    ELSE (x[1] + 2 * x[2] + x[3] + h + 1) % 2

ECell(x, h) ==
    IF ~AllFinite(x) \/ ~IsFinite(h) THEN NaN
    ELSE (SumSeq(x) + 2 * h + 2) % 2

\* DialogueRNNCell.__init__: the widths, the party count, and the attention
\* modules the two variant arguments ask for.
DialogueRNNCellInit(D_m, D_g, D_p, party, context_attention, party_attention, D_a) ==
    LET absent == [err |-> "absent"]
        catt == IF context_attention # NoneAtt
               THEN MatchingAttentionInit(D_g, D_m, D_a, context_attention)
               ELSE absent
        p1 == IF party_attention # NoneAtt
              THEN MatchingAttentionInit(D_p, D_m, D_a, party_attention)
              ELSE absent
    IN IF catt.err = "AssertionError" \/ p1.err = "AssertionError"
       THEN [err |-> "AssertionError"]
       ELSE [err |-> "none", party |-> party,
             party_attention |-> party_attention,
             context_attention |-> context_attention,
             attention |-> catt, attention_p1 |-> p1, attention_p2 |-> p1]

\* Python indexing of an axis of size n with index i.
IndexOK(i, n) == i >= 0 - n /\ i < n
IndexNorm(i, n) == IF i < 0 THEN i + n ELSE i

\* The slot attention_p1 reads for speaker slot p: q_hist[:, :, 1 - p, :].
OtherIndex(p) == 1 - p

\* q_hist[:, :, idx, :] for one batch row.
HistSlot(q_hist, idx, n) ==
    <<>> \o [k \in 1 .. Len(q_hist) |-> q_hist[k][IndexNorm(idx, n) + 1]]

\* The merge as the commented-out line 175 has it: q_ = qs_.
MergeQ_AllRows(ql, qs, m) == qs

\* ql_ * (1 - qmask_) + qs_ * qmask_, for one element.
MergeQ(ql, qs, m) == FAdd(FMul(ql, 1 - m), FMul(qs, m))

\* The emotion merge without the mask: e_ = es_.
MergeE_AllRows(el, es, m) == es

\* el_ * (1 - qmask_) + es_ * qmask_, for one element.
MergeE(el, es, m) == FAdd(FMul(el, 1 - m), FMul(es, m))

\* Calling a module attribute: AttributeError when __init__ did not set it.
CallAttention(att, M, x) ==
    IF att.err = "absent"
    THEN [err |-> "AttributeError", pool |-> NaN, alpha |-> [n |-> <<>>, d |-> 0]]
    ELSE MatchingAttentionForward(att, M, x, <<>>)

\* DialogueRNNCell.forward for one batch row, statement group by
\* statement group.  Each group takes the record s of the locals bound so
\* far and returns it with its own locals added; s.err names the exception
\* raised so far, "none" while the call is running.  drop = [g, q, e]:
\* which elements this call's dropout zeroes.

\* The arguments, the zero initial states (lines 139-144) and the speaker
\* index (line 146).
CellStart(cell, U, qmask, g_hist0, q0in, q_hist0, e0in, drop) ==
    LET pa == cell.party_attention # NoneAtt
        slots == 1 .. cell.party
    IN [err |-> "none", cell |-> cell, party |-> cell.party, pa |-> pa,
        U |-> U, qmask |-> qmask, g_hist0 |-> g_hist0, q_hist0 |-> q_hist0,
        drop |-> drop,
        e0 |-> IF Len(e0in) = 0
               THEN (IF pa THEN <<>> \o [i \in slots |-> 0] ELSE <<0>>)
               ELSE e0in,
        q0 |-> IF Len(q0in) = 0 THEN <<>> \o [i \in slots |-> 0] ELSE q0in,
        qm_idx |-> ArgMax(qmask)]

\* The global state g_ (lines 147-157).
CellGlobal(s) ==
    LET q0_sel == SelectParties(s.q0, s.qm_idx)
        e0_sel == IF s.pa THEN SelectParties(s.e0, s.qm_idx) ELSE s.e0[1]
        g_prev == IF Len(s.g_hist0) = 0 THEN 0 ELSE s.g_hist0[Len(s.g_hist0)]
        g_ == Dropout(GCell(<<s.U, q0_sel, e0_sel>>, g_prev), s.drop.g)
    IN [e0_sel |-> e0_sel, g_ |-> g_, g_hist |-> Append(s.g_hist0, g_)] @@ s

\* The context attention called on the carried-in history, without the
\* append of line 157 and the test of line 159.
CellContext_OnCarried(s) ==
    LET ctx == CallAttention(s.cell.attention, s.g_hist0, s.U)
    IN [err |-> ctx.err, gc_ |-> ctx.pool, alpha |-> ctx.alpha,
        ctxLens |-> {Len(s.g_hist0)}] @@ s

\* The context attention over g_hist (lines 159-163); ctxLens holds the
\* number of entries of the history the module was called on.
CellContext(s) ==
    LET ctx == IF Len(s.g_hist) = 0
               THEN [err |-> "none", pool |-> 0, alpha |-> <<>>]
               ELSE CallAttention(s.cell.attention, s.g_hist, s.U)
    IN [err |-> ctx.err, gc_ |-> ctx.pool, alpha |-> ctx.alpha,
        ctxLens |-> IF Len(s.g_hist) = 0 THEN {} ELSE {Len(s.g_hist)}] @@ s

\* The party states: every slot's candidate, merged by the speaker mask
\* (lines 165-176).
CellParty(s) ==
    IF s.err # "none" THEN s
    ELSE LET slots == 1 .. s.party
             qs_ == <<>> \o [i \in slots |->
                       Dropout(PCell(<<s.U, s.gc_, s.e0_sel>>, s.q0[i]), s.drop.q[i])]
             q_ == <<>> \o [i \in slots |-> MergeQ(s.q0[i], qs_[i], s.qmask[i])]
         IN [qs_ |-> qs_, q_ |-> q_, q_hist |-> Append(s.q_hist0, q_)] @@ s

\* One pass of the party loop's calls for every slot p = i - 1
\* (lines 187-192): attention_p1 on q_hist[:, :, 1 - p, :] and attention_p2
\* on q_hist[:, :, p, :].
CellPartyCalls(s) ==
    IF s.err # "none" THEN s
    ELSE LET slots == 1 .. s.party
         IN [p1idx |-> <<>> \o [i \in slots |-> OtherIndex(i - 1)],
             p2idx |-> <<>> \o [i \in slots |-> i - 1],
             a1 |-> <<>> \o [i \in slots |->
                      IF IndexOK(OtherIndex(i - 1), s.party)
                      THEN CallAttention(s.cell.attention_p1,
                                         HistSlot(s.q_hist, OtherIndex(i - 1), s.party),
                                         s.U)
                      ELSE [err |-> "IndexError", pool |-> NaN,
                            alpha |-> [n |-> <<>>, d |-> 0]]],
             a2 |-> <<>> \o [i \in slots |->
                      CallAttention(s.cell.attention_p2,
                                    HistSlot(s.q_hist, i - 1, s.party), s.U)]] @@ s

\* The party branch (lines 178-192): taken when party_attention is set
\* and q_hist is not empty; the first call that raises ends the loop.
CellPartyAttention(s) ==
    IF s.err # "none" THEN s
    ELSE LET slots == 1 .. s.party
             runAtt == s.pa /\ Len(s.q_hist) # 0
             perr == <<>> \o [i \in slots |->
                        IF s.a1[i].err # "none" THEN s.a1[i].err ELSE s.a2[i].err]
             bad == {i \in slots : perr[i] # "none"}
         IN [err |-> IF ~runAtt \/ bad = {} THEN "none"
                     ELSE perr[CHOOSE i \in bad : \A j \in bad : i <= j],
             runAtt |-> runAtt,
             partyLens |-> IF runAtt THEN {Len(s.q_hist)} ELSE {},
             Q |-> <<>> \o [i \in slots |-> IF runAtt THEN s.a1[i].pool ELSE 0],
             Qp |-> <<>> \o [i \in slots |-> IF runAtt THEN s.a2[i].pool ELSE 0]] @@ s

\* The emotion states (lines 194-207): with party attention every slot's
\* candidate merged by the speaker mask, without it one update from the
\* speaker's party state.
CellEmotion(s) ==
    IF s.err # "none" THEN s
    ELSE LET slots == 1 .. s.party
             es_ == IF s.pa
                    THEN <<>> \o [i \in slots |->
                            Dropout(ECell(<<s.Q[i], s.Qp[i], s.g_>>, s.e0[i]),
                                    s.drop.e[i])]
                    ELSE <<>>
             e_ == IF s.pa
                   THEN <<>> \o [i \in slots |-> MergeE(s.e0[i], es_[i], s.qmask[i])]
                   ELSE <<Dropout(ECell(<<SelectParties(s.q_, s.qm_idx)>>, s.e0_sel),
                                  s.drop.e[1])>>
         IN [es_ |-> es_, e_ |-> e_] @@ s

\* What the call leaves: the raised exception, or the returned
\* g_, q_, e_, e_out, alpha (line 210) with the locals the properties read.
CellReturn(s) ==
    IF s.err # "none"
    THEN [err |-> s.err, qmask |-> s.qmask, n_g_hist |-> Len(s.g_hist0),
          n_q_hist |-> Len(s.q_hist0),
          attLens |-> s.ctxLens
                      \cup (IF "partyLens" \in DOMAIN s THEN s.partyLens ELSE {})]
    ELSE [err |-> "none", qmask |-> s.qmask, qm_idx |-> s.qm_idx,
          n_g_hist |-> Len(s.g_hist0), n_q_hist |-> Len(s.q_hist0),
          g_ |-> s.g_, q_ |-> s.q_, e_ |-> s.e_,
          e_out |-> IF s.pa THEN SelectParties(s.e_, s.qm_idx) ELSE s.e_[1],
          qs_sel |-> s.qs_[s.qm_idx + 1],
          es_sel |-> IF s.pa THEN s.es_[s.qm_idx + 1] ELSE s.e_[1],
          alpha |-> s.alpha, p1idx |-> s.p1idx, p2idx |-> s.p2idx,
          attLens |-> s.ctxLens \cup s.partyLens]

\* DialogueRNNCell.forward
CellForward(cell, U, qmask, g_hist0, q0in, q_hist0, e0in, drop) ==
    CellReturn(CellEmotion(CellPartyAttention(CellPartyCalls(CellParty(
        CellContext(CellGlobal(
            CellStart(cell, U, qmask, g_hist0, q0in, q_hist0, e0in, drop))))))))


\* ----------------------------------------------------- the sequence runner
\* D_a = 100, the Model's default attention hidden width
DefaultDa == 100
\* The feature widths a configuration may name.
MaxDim == 2
Dims == 1 .. MaxDim

AttArgs == AttTypes \cup {NoneAtt}

\* The variant arguments the runner is constructed with here: a variant
\* with a working forward, one that asserts on the widths, one outside the
\* supported set, and None.
RunnerCtxArgs == {"dot", "simple", NoneAtt}
RunnerPartyArgs == {"general", "simple", NoneAtt}

\* The speaker masks of one timestep of one row: one-hot, or all zero at a
\* padded timestep.
QMasks(party) == OneHot(party) \cup {<<>> \o [i \in 1 .. party |-> 0]}
IsOneHot(qmask) == SumSeq(qmask) = 1

\* The dropout outcomes of one cell call: whether the context element, the
\* active speaker's party and emotion elements, and the other speakers'
\* elements are zeroed.
Drops(party, qmask) ==
    {[g |-> dg,
      q |-> <<>> \o [i \in 1 .. party |-> IF i = ArgMax(qmask) + 1 THEN dq ELSE dr],
      e |-> <<>> \o [i \in 1 .. party |-> IF i = ArgMax(qmask) + 1 THEN de ELSE dr]] :
       dg \in BOOLEAN, dq \in BOOLEAN, de \in BOOLEAN, dr \in BOOLEAN}

\* What the runner appends to e: the active speaker's row in party mode,
\* the single emotion state otherwise.
RunnerCollectE(cell, r) ==
    IF cell.party_attention # NoneAtt
    THEN SelectParties(r.e_, ArgMax(r.qmask))
    ELSE r.e_[1]

\* The runner collecting the cell's first result, the context g_.
RunnerCollectC_Context(r) == r.g_

\* What the runner appends to c: the cell's fourth result.
RunnerCollectC(r) == r.e_out

\* The history buffers the runner hands to the next cell call: the loop
\* never rebinds g_hist or q_hist, so they stay as they were.
RunnerCarryHist(hist, r_entry) == hist

VARIABLES
    pc,       \* "new", "ctor_raised", "ready", "loop", "returned", "raised"
    cell,     \* the DialogueRNN's dialogue_cell
    t,        \* cell invocations completed in this pass
    g_hist,   \* DialogueRNN.forward's locals
    q_hist,
    q_,
    e_,
    e,
    c,
    alpha,
    call,     \* the last cell invocation: its speaker mask and results
    err,      \* the exception that ended the constructor or the pass
    att,      \* a MatchingAttention object used on its own
    attOut,   \* its last forward call: the inputs and the result
    rev,      \* a batch, its mask and its reversals by _reverse_seq
    loss,     \* a MaskedNLLLoss call on two prediction inputs
    model,    \* a Model object
    mres      \* its last forward call: the inputs and the result

runnerVars == <<pc, cell, t, g_hist, q_hist, q_, e_, e, c, alpha, call, err>>
attVars == <<att, attOut>>
modelVars == <<model, mres>>
vars == <<runnerVars, attVars, rev, loss, modelVars>>

NoCall == [err |-> "nocall"]
Absent == [err |-> "absent"]
Idle == [stage |-> "idle"]

AttIdle == att = Absent /\ attOut = NoCall
ModelIdle == model = Absent /\ mres = NoCall

RunnerIdle ==
    /\ pc = "new"
    /\ cell = Absent
    /\ t = 0
    /\ g_hist = <<>>
    /\ q_hist = <<>>
    /\ q_ = <<>>
    /\ e_ = <<>>
    /\ e = <<>>
    /\ c = <<>>
    /\ alpha = <<>>
    /\ call = NoCall
    /\ err = "none"

Init == RunnerIdle /\ AttIdle /\ rev = Idle /\ loss = Idle /\ ModelIdle

\* DialogueRNN.__init__
Construct ==
    /\ pc = "new"
    /\ \E D_m \in Dims, D_g \in Dims, D_p \in Dims, party \in 1 .. MaxParty,
          ca \in RunnerCtxArgs, pa \in RunnerPartyArgs, D_a \in {NoneDim, DefaultDa} :
         LET obj == DialogueRNNCellInit(D_m, D_g, D_p, party, ca, pa, D_a)
         IN /\ cell' = obj
            /\ pc' = IF obj.err = "none" THEN "ready" ELSE "ctor_raised"
            /\ err' = obj.err
    /\ UNCHANGED <<t, g_hist, q_hist, q_, e_, e, c, alpha, call>>
    /\ UNCHANGED <<attVars, rev, loss, modelVars>>

\* DialogueRNN.forward, up to the loop: the empty locals.
RunnerStart ==
    /\ pc \in {"ready", "returned", "raised"}
    /\ pc' = "loop"
    /\ t' = 0
    /\ g_hist' = <<>>
    /\ q_hist' = <<>>
    /\ q_' = <<>>
    /\ e_' = <<>>
    /\ e' = <<>>
    /\ c' = <<>>
    /\ alpha' = <<>>
    /\ call' = NoCall
    /\ err' = "none"
    /\ UNCHANGED cell
    /\ UNCHANGED <<attVars, rev, loss, modelVars>>

\* One iteration of the loop over zip(U, qmask).
RunnerStep ==
    /\ pc = "loop"
    /\ t < MaxT
    /\ \E U \in Val, qmask \in QMasks(cell.party) : \E drop \in Drops(cell.party, qmask) :
         \E r \in {CellForward(cell, U, qmask, g_hist, q_, q_hist, e_, drop)} :
            /\ call' = r
            /\ IF r.err # "none"
               THEN /\ pc' = "raised"
                    /\ err' = r.err
                    /\ UNCHANGED <<t, g_hist, q_hist, q_, e_, e, c, alpha>>
               ELSE /\ q_' = r.q_
                    /\ e_' = r.e_
                    /\ e' = Append(e, RunnerCollectE(cell, r))
                    /\ c' = Append(c, RunnerCollectC(r))
                    /\ alpha' = IF r.alpha # <<>> THEN Append(alpha, r.alpha) ELSE alpha
                    /\ g_hist' = RunnerCarryHist(g_hist, r.g_)
                    /\ q_hist' = RunnerCarryHist(q_hist, r.q_)
                    /\ t' = t + 1
                    /\ UNCHANGED <<pc, err>>
    /\ UNCHANGED cell
    /\ UNCHANGED <<attVars, rev, loss, modelVars>>

\* The return, once zip(U, qmask) is exhausted (the time axis of this
\* pass had t entries): torch.stack(e), torch.stack(c), alpha.
RunnerReturn ==
    /\ pc = "loop"
    /\ t >= 1
    /\ pc' = "returned"
    /\ UNCHANGED <<cell, t, g_hist, q_hist, q_, e_, e, c, alpha, call, err>>
    /\ UNCHANGED <<attVars, rev, loss, modelVars>>

Next == Construct \/ RunnerStart \/ RunnerStep \/ RunnerReturn

Spec == Init /\ [][Next]_vars

\* ------------------------------------------------------------ properties
\* A loop iteration that returned from the cell.
StepDone == pc = "loop" /\ pc' = "loop" /\ t' = t + 1

\* The party state the cell works on: the carried-in one, zeros when the
\* carried-in tensor is empty (the first step).
CarriedQ(q) == IF Len(q) = 0 THEN <<>> \o [i \in 1 .. cell.party |-> 0] ELSE q
CarriedE(x) == IF Len(x) = 0 THEN <<>> \o [i \in 1 .. cell.party |-> 0] ELSE x

PartyMode == cell.err = "none" /\ cell.party_attention # NoneAtt

SupportedAtt == {"dot", "general", "general2", "concat"}

\* C1: in every step with a one-hot speaker mask, each party-state row of a
\* non-active speaker in the returned q_ equals that row of the carried-in
\* party state, and the active speaker's row is the candidate.
C1_NonActivePartyRowsKept ==
    [][StepDone /\ IsOneHot(call'.qmask) =>
         /\ \A i \in 1 .. cell.party :
               call'.qmask[i] = 0 => FEq(q_'[i], CarriedQ(q_)[i])
         /\ FEq(q_'[call'.qm_idx + 1], call'.qs_sel)]_vars

\* C1 witness: after two steps with two or more speakers, a non-active
\* speaker's row still holds the nonzero value an earlier step gave it.
C1_Witness ==
    /\ pc = "loop" /\ t >= 2 /\ cell.party >= 2
    /\ IsOneHot(call.qmask)
    /\ \E i \in 1 .. cell.party : call.qmask[i] = 0 /\ q_[i] = 1
    /\ q_[call.qm_idx + 1] = call.qs_sel

\* C2: in party-attention mode, in every step with a one-hot speaker mask,
\* each emotion-state row of a non-active speaker in the returned e_ equals
\* that row of the carried-in emotion state.
C2_NonActiveEmotionRowsKept ==
    [][StepDone /\ PartyMode /\ IsOneHot(call'.qmask) =>
         /\ \A i \in 1 .. cell.party :
               call'.qmask[i] = 0 => FEq(e_'[i], CarriedE(e_)[i])
         /\ FEq(e_'[call'.qm_idx + 1], call'.es_sel)]_vars

\* C2 witness: party-attention mode, two steps done, and a non-active
\* speaker's emotion row still holds a nonzero value from an earlier step.
C2_Witness ==
    /\ pc = "loop" /\ t >= 2 /\ PartyMode
    /\ IsOneHot(call.qmask)
    /\ \E i \in 1 .. cell.party : call.qmask[i] = 0 /\ e_[i] = 1

\* C3 (as claimed): the t-th cell invocation of a pass is handed a context
\* history and a party-state history of exactly the t entries the earlier
\* steps produced.  After the invocation t has advanced by one.
C3_HistoryCarried ==
    (pc \in {"loop", "returned"} /\ call.err = "none") =>
        (call.n_g_hist = t - 1 /\ call.n_q_hist = t - 1)

\* C4 (as claimed): entry t of the runner's second result is the context g
\* the cell computed at step t.
C4_SecondResultIsContext ==
    (pc = "returned" /\ call.err = "none") => FEq(c[t], call.g_)

\* C4 (amended): entry t of the runner's second result is the cell's fourth
\* result at step t, the active speaker's emotion output, and the second
\* result equals the first entry by entry.
C4_SecondResultIsEmotionOut ==
    (pc \in {"loop", "returned"} /\ call.err = "none") =>
        /\ Len(c) = t /\ Len(e) = t
        /\ FEq(c[t], call.e_out)
        /\ \A k \in 1 .. t : FEq(c[k], e[k])

\* C4 witness: a pass of two steps has returned, and in its last step the
\* context and the emotion output differ.
C4_Witness ==
    /\ pc = "returned" /\ t >= 2 /\ call.err = "none"
    /\ call.g_ # call.e_out
    /\ c[t] = call.e_out

\* The first cell invocation of a pass has ended, by return or exception.
FirstStepEnded ==
    call.err # "nocall" /\ (t = 1 \/ (pc = "raised" /\ t = 0))

\* C7 (as claimed): with party = 1 and supported attention variants, the
\* first step of a pass returns without an exception and without NaN, in the
\* party-attention and in the non-party emotion mode.
C7_SingleSpeakerFirstStep ==
    (/\ cell.err = "none" /\ cell.party = 1
     /\ cell.context_attention \in SupportedAtt
     /\ cell.party_attention \in SupportedAtt \cup {NoneAtt}
     /\ FirstStepEnded /\ IsOneHot(call.qmask)) =>
        /\ call.err = "none"
        /\ IsFinite(call.g_) /\ AllFinite(call.q_) /\ AllFinite(call.e_)

\* C11 (as claimed): in party-attention mode, for every number of speakers
\* and every speaker slot p, the step does not fail on the slot index,
\* attention_p1 reads the history of a slot in range and different from p,
\* and attention_p2 reads the history of slot p.
C11_OtherSlotThenOwnSlot ==
    (/\ PartyMode
     /\ cell.context_attention \in SupportedAtt
     /\ cell.party_attention \in SupportedAtt
     /\ call.err # "nocall") =>
        /\ call.err # "IndexError"
        /\ call.err = "none" =>
              \A i \in 1 .. cell.party :
                 /\ IndexOK(call.p1idx[i], cell.party)
                 /\ IndexNorm(call.p1idx[i], cell.party) # i - 1
                 /\ IndexNorm(call.p2idx[i], cell.party) = i - 1

\* With two speakers the slots are as claimed: attention_p1 reads the other
\* speaker's history, attention_p2 the speaker's own.
C11_TwoSpeakersOtherThenOwn ==
    (PartyMode /\ cell.party = 2 /\ call.err = "none") =>
        \A i \in 1 .. 2 :
           /\ IndexNorm(call.p1idx[i], 2) = 2 - i
           /\ IndexNorm(call.p2idx[i], 2) = i - 1

\* C12 (as claimed): the first step of a pass returns no context-attention
\* weights, and the runner's list of weights has no entry for it.
C12_FirstStepNoWeights ==
    (pc \in {"loop", "returned"} /\ t = 1 /\ call.err = "none") =>
        (call.alpha = <<>> /\ Len(alpha) = 0)

\* Every step that returns, the first included, returns the weights over a
\* history of one entry or more, and the runner's list has one entry per
\* step.
C12_EveryStepHasWeights ==
    (pc \in {"loop", "returned"} /\ t >= 1 /\ call.err = "none") =>
        (call.alpha # <<>> /\ Len(call.alpha.n) >= 1 /\ Len(alpha) = t)

\* C13: in every step of every pass, the first included, every history an
\* attention module of the cell is called on (context attention,
\* attention_p1, attention_p2) has one entry or more.
C13_NoAttentionOnEmptyHistory ==
    (call.err # "nocall") => \A n \in call.attLens : n >= 1

\* C13 witness: the first step of a pass in party-attention mode has
\* returned; the carried-in histories were empty and the attention modules
\* were called on histories of one entry.
C13_Witness ==
    /\ pc = "loop" /\ t = 1 /\ PartyMode /\ call.err = "none"
    /\ call.n_g_hist = 0 /\ call.n_q_hist = 0
    /\ call.attLens = {1}

\* -------------------------------------------- the attention module alone
\* The variant strings a caller may pass: the five the configuration names
\* and one outside them.
AttStrings == AttTypes \cup {"bogus"}

\* The validity masks over n history entries, and mask=None.
MasksOf(n) == [1 .. n -> {0, 1}] \cup {<<>>}

\* MatchingAttention(mem_dim, cand_dim, alpha_dim, att_type)
AttConstruct ==
    /\ \E mem_dim \in Dims, cand_dim \in Dims, alpha_dim \in {NoneDim, DefaultDa},
          att_type \in AttStrings :
         att' = MatchingAttentionInit(mem_dim, cand_dim, alpha_dim, att_type)
    /\ attOut' = NoCall
    /\ UNCHANGED <<runnerVars, rev, loss, modelVars>>

\* MatchingAttention.forward(M, x, mask) on a constructed object.
AttForward ==
    /\ att.err = "none"
    /\ \E n \in 1 .. MaxT :
         \E M \in [1 .. n -> Val], x \in Val, mask \in MasksOf(n) :
            \E r \in {MatchingAttentionForward(att, M, x, mask)} :
               attOut' = [err |-> r.err, alpha |-> r.alpha, pool |-> r.pool,
                          M |-> M, x |-> x,
                          mask |-> IF mask = <<>> THEN <<>> \o [i \in 1 .. n |-> 1] ELSE mask]
    /\ UNCHANGED <<att, runnerVars, rev, loss, modelVars>>

NextAtt == AttConstruct \/ AttForward

SpecAtt == Init /\ [][NextAtt]_vars

\* The sum of a weight vector's entries over the positions the mask keeps
\* is 1: the numerators there add up to the (nonzero) denominator.
ValidWeightsSumToOne(a, mask) ==
    /\ a.d # 0
    /\ SumSeq(<<>> \o [i \in 1 .. Len(a.n) |-> a.n[i] * mask[i]]) = a.d

\* C8 (as claimed): no successfully constructed attention module fails in
\* forward because of its attention-variant configuration.
C8_ConfigErrorsAtConstruction ==
    (att.err = "none" /\ attOut.err # "nocall") => attOut.err = "none"

\* C9 (as claimed): in a 'general2' forward call, a mask that sums to zero
\* gives an exception or a defined weight vector; a mask with a nonzero
\* entry gives weight 0 at masked positions and valid weights summing to 1.
C9_ZeroMaskGuarded ==
    (att.err = "none" /\ att.att_type = "general2" /\ attOut.err # "nocall") =>
        IF SumSeq(attOut.mask) = 0
        THEN attOut.err # "none" \/ AlphaDefined(attOut.alpha)
        ELSE /\ attOut.err = "none"
             /\ \A i \in 1 .. Len(attOut.mask) :
                   attOut.mask[i] = 0 => attOut.alpha.n[i] = 0
             /\ ValidWeightsSumToOne(attOut.alpha, attOut.mask)

\* The part of C9 about masks with a nonzero entry, on its own.
C9_NonzeroMaskNormalised ==
    (att.err = "none" /\ att.att_type = "general2" /\ attOut.err # "nocall"
     /\ SumSeq(attOut.mask) # 0) =>
        /\ attOut.err = "none"
        /\ \A i \in 1 .. Len(attOut.mask) :
              attOut.mask[i] = 0 => attOut.alpha.n[i] = 0
        /\ ValidWeightsSumToOne(attOut.alpha, attOut.mask)

\* ------------------------------------------------------------ _reverse_seq
\* The batch size is 1 .. MaxBatch.
MaxBatch == 2

Max(S) == CHOOSE v \in S : \A w \in S : w <= v

\* torch.flip over the whole row, padding included.
ReverseRow_Whole(x, cnt) == <<>> \o [k \in 1 .. Len(x) |-> x[Len(x) + 1 - k]]

\* torch.flip(x[:c], [0]): the first c entries of a row, reversed.
ReverseRow(x, cnt) ==
    LET n == IF cnt < Len(x) THEN cnt ELSE Len(x)
    IN <<>> \o [k \in 1 .. n |-> x[n + 1 - k]]

\* pad_sequence(xfs): time-major, as long as the longest row, filled with
\* zeros (zero: the zero entry of the rows' element shape).
PadSequence(rows, zero) ==
    LET L == Max({Len(rows[b]) : b \in 1 .. Len(rows)})
    IN <<>> \o [k \in 1 .. L |->
          <<>> \o [b \in 1 .. Len(rows) |-> IF k <= Len(rows[b]) THEN rows[b][k] ELSE zero]]

\* _reverse_seq(X, mask): X is time-major (X[k][b]), mask is batch-major.
ReverseSeqOf(X, mask, zero) ==
    LET X_ == <<>> \o [b \in 1 .. Len(mask) |-> <<>> \o [k \in 1 .. Len(X) |-> X[k][b]]]
        mask_sum == <<>> \o [b \in 1 .. Len(mask) |-> SumSeq(mask[b])]
        xfs == <<>> \o [b \in 1 .. Len(mask) |-> ReverseRow(X_[b], mask_sum[b])]
    IN PadSequence(xfs, zero)

\* _reverse_seq on a batch of one-component vectors.
ReverseSeq(X, mask) == ReverseSeqOf(X, mask, 0)

\* The valid-length mask of rows of the given lengths, padded to T.
PrefixMask(lens, T) ==
    <<>> \o [b \in 1 .. Len(lens) |-> <<>> \o [k \in 1 .. T |-> IF k <= lens[b] THEN 1 ELSE 0]]

\* The right-padded batches of B rows and T timesteps: a valid position
\* holds one of two values of its own, a padded position holds 0.
PaddedBatches(T, B) ==
    {[X |-> <<>> \o [k \in 1 .. T |->
               <<>> \o [b \in 1 .. B |->
                  IF k <= lens[b] THEN 2 * ((b - 1) * T + k) - bit[k][b] ELSE 0]],
      mask |-> PrefixMask(lens, T)] :
        lens \in [1 .. B -> 0 .. T], bit \in [1 .. T -> [1 .. B -> {0, 1}]]}

InitRev ==
    /\ RunnerIdle /\ AttIdle /\ loss = Idle /\ ModelIdle
    /\ \E T \in 1 .. MaxT, B \in 1 .. MaxBatch :
         \E in \in PaddedBatches(T, B) :
            rev = [stage |-> "input", X |-> in.X, mask |-> in.mask]

\* rev1 = _reverse_seq(X, mask)
ReverseOnce ==
    /\ rev.stage = "input"
    /\ rev' = [stage |-> "once", X |-> rev.X, mask |-> rev.mask,
               r1 |-> ReverseSeq(rev.X, rev.mask)]
    /\ UNCHANGED <<runnerVars, attVars, loss, modelVars>>

\* rev2 = _reverse_seq(rev1, mask)
ReverseTwice ==
    /\ rev.stage = "once"
    /\ rev' = [stage |-> "twice", X |-> rev.X, mask |-> rev.mask,
               r1 |-> rev.r1, r2 |-> ReverseSeq(rev.r1, rev.mask)]
    /\ UNCHANGED <<runnerVars, attVars, loss, modelVars>>

NextRev == ReverseOnce \/ ReverseTwice

SpecRev == InitRev /\ [][NextRev]_vars

RowLen(b) == SumSeq(rev.mask[b])

\* C5: for a right-padded batch and a prefix mask, one reversal puts
\* X[len_b - 1 - t] at position t < len_b of row b and only padding at and
\* beyond len_b, and the reversal of the reversal equals X at every valid
\* position.
C5_ReverseTwiceIsIdentity ==
    /\ rev.stage \in {"once", "twice"} =>
         \A b \in 1 .. Len(rev.mask) :
            /\ Len(rev.r1) >= RowLen(b)
            /\ \A k \in 1 .. Len(rev.r1) :
                  IF k <= RowLen(b)
                  THEN rev.r1[k][b] = rev.X[RowLen(b) + 1 - k][b]
                  ELSE rev.r1[k][b] = 0
    /\ rev.stage = "twice" =>
         \A b \in 1 .. Len(rev.mask) :
            /\ Len(rev.r2) >= RowLen(b)
            /\ \A k \in 1 .. RowLen(b) : rev.r2[k][b] = rev.X[k][b]

\* C5 witness: two rows of different valid lengths, one shorter than the
\* padded length and one of at least two entries, reversed twice.
C5_Witness ==
    /\ rev.stage = "twice"
    /\ Len(rev.mask) >= 2
    /\ \E a, b \in 1 .. Len(rev.mask) :
          RowLen(a) < RowLen(b) /\ RowLen(a) >= 1 /\ RowLen(b) >= 2
    /\ rev.r1 # rev.X
    /\ \A b \in 1 .. Len(rev.mask) : \A k \in 1 .. RowLen(b) : rev.r2[k][b] = rev.X[k][b]

\* ---------------------------------------------------------- MaskedNLLLoss
\* The flattened batch*seq_len axis has 1 .. MaxN positions.
MaxN == 2
\* The class axis: two classes.
Classes == {1, 2}
\* Log-probabilities of the first prediction input, and the values the
\* second holds at masked-out positions: finite ones and -inf, which
\* log_softmax gives a class of probability 0.
FinitePredVals == {0 - 2, 0 - 1}
PredVals == FinitePredVals \cup {NegInf}
\* weight=None, or a weight per class.
WeightArgs == {<<>>, <<1, 2>>}

\* Float division: 0/0 and inf/inf are NaN, x/0 is an infinity; a finite
\* quotient is kept as the fraction n/d.
FDiv(a, b) ==
    IF a = NaN \/ b = NaN \/ (a = 0 /\ b = 0) \/ (~IsFinite(a) /\ ~IsFinite(b))
    THEN [k |-> "nan", n |-> 0, d |-> 0]
    ELSE IF b = 0 \/ ~IsFinite(a)
    THEN [k |-> "inf", n |-> Sign(a) * (IF b < 0 THEN 0 - 1 ELSE 1), d |-> 0]
    ELSE IF ~IsFinite(b)
    THEN [k |-> "fin", n |-> 0, d |-> 1]
    ELSE [k |-> "fin", n |-> a, d |-> b]

\* pred * mask_: every class entry of a position times the position's mask.
MaskPred(pred, mask) ==
    <<>> \o [i \in 1 .. Len(pred) |-> [k \in Classes |-> FMul(pred[i][k], mask[i])]]

\* nn.NLLLoss(weight, reduction='sum')(x, target): the sum over positions
\* of -weight[target] * x[target] (weight 1 without class weights).
NLLSum(x, target, weight) ==
    FSumSeq(<<>> \o [i \in 1 .. Len(x) |->
               FMul(FNeg(IF weight = <<>> THEN 1 ELSE weight[target[i]]),
                    x[i][target[i]])])

\* The denominator: torch.sum(mask), or with class weights
\* torch.sum(self.weight[target] * mask_.squeeze()).
LossDenominator(target, mask, weight) ==
    IF weight = <<>> THEN FSumSeq(mask)
    ELSE FSumSeq(<<>> \o [i \in 1 .. Len(mask) |-> FMul(weight[target[i]], mask[i])])

\* MaskedNLLLoss.forward(pred, target, mask)
MaskedNLLLoss(pred, target, mask, weight) ==
    FDiv(NLLSum(MaskPred(pred, mask), target, weight),
         LossDenominator(target, mask, weight))

\* A prediction input with every masked-out position overwritten by v.
Repadded(pred, mask, v) ==
    <<>> \o [i \in 1 .. Len(pred) |->
        IF mask[i] = 1 THEN pred[i] ELSE [k \in Classes |-> v]]

InitLoss ==
    /\ RunnerIdle /\ AttIdle /\ rev = Idle /\ ModelIdle
    /\ \E n \in 1 .. MaxN :
         \E pred \in [1 .. n -> [Classes -> FinitePredVals]], mask \in [1 .. n -> {0, 1}],
            target \in [1 .. n -> Classes], weight \in WeightArgs, v \in PredVals :
            loss = [stage |-> "input", pred1 |-> pred,
                    pred2 |-> Repadded(pred, mask, v),
                    target |-> target, mask |-> mask, weight |-> weight]

\* The loss of both prediction inputs, with the same targets and mask.
LossForward ==
    /\ loss.stage = "input"
    /\ loss' = [loss EXCEPT !.stage = "done"] @@
               [l1 |-> MaskedNLLLoss(loss.pred1, loss.target, loss.mask, loss.weight),
                l2 |-> MaskedNLLLoss(loss.pred2, loss.target, loss.mask, loss.weight)]
    /\ UNCHANGED <<runnerVars, attVars, rev, modelVars>>

NextLoss == LossForward

SpecLoss == InitLoss /\ [][NextLoss]_vars

\* C6 (as claimed): two prediction inputs that agree wherever the mask is 1,
\* whatever they hold elsewhere (non-finite values included), have the same
\* loss, with and without class weights.
C6_MaskedPredictionsIgnored ==
    loss.stage = "done" => loss.l1 = loss.l2

\* The same for inputs that are finite at the masked-out positions.
C6_FiniteMaskedPredictionsIgnored ==
    (/\ loss.stage = "done"
     /\ \A i \in 1 .. Len(loss.mask) :
           loss.mask[i] = 0 =>
              \A k \in Classes : IsFinite(loss.pred1[i][k]) /\ IsFinite(loss.pred2[i][k]))
    => loss.l1 = loss.l2

\* ------------------------------------------------------------------ Model
\* The dropout outcomes of one Model.forward: nothing zeroed (evaluation
\* mode) or everything zeroed.
ModelDrops == {FALSE, TRUE}

DropAll(party, d) ==
    [g |-> d, q |-> <<>> \o [i \in 1 .. party |-> d], e |-> <<>> \o [i \in 1 .. party |-> d]]

\* The locals of DialogueRNN.forward before the loop.
RunnerLocals0 ==
    [err |-> "none", g_hist |-> <<>>, q_hist |-> <<>>, q_ |-> <<>>, e_ |-> <<>>,
     e |-> <<>>, c |-> <<>>, alpha |-> <<>>]

\* The runner's locals after an iteration whose cell call returned r.
RunnerAfter(rcell, s, r) ==
    IF r.err # "none" THEN [s EXCEPT !.err = r.err]
    ELSE [err |-> "none",
          g_hist |-> RunnerCarryHist(s.g_hist, r.g_),
          q_hist |-> RunnerCarryHist(s.q_hist, r.q_),
          q_ |-> r.q_, e_ |-> r.e_,
          e |-> Append(s.e, RunnerCollectE(rcell, r)),
          c |-> Append(s.c, RunnerCollectC(r)),
          alpha |-> IF r.alpha # <<>> THEN Append(s.alpha, r.alpha) ELSE s.alpha]

\* DialogueRNN.forward's loop for one batch row, from iteration k on.
RECURSIVE RunnerLoop(_, _, _, _, _, _)
RunnerLoop(rcell, U, qmask, d, k, s) ==
    IF s.err # "none" \/ k > Len(U) THEN s
    ELSE RunnerLoop(rcell, U, qmask, d, k + 1,
                    RunnerAfter(rcell, s,
                                CellForward(rcell, U[k], qmask[k], s.g_hist, s.q_,
                                            s.q_hist, s.e_, DropAll(rcell.party, d))))

\* torch.stack of the per-step results (line 258), given every batch
\* row's loop result; torch.stack of an empty list raises RuntimeError.
RunnerStack(row, n, B) ==
    IF \E b \in 1 .. B : row[b].err # "none"
    THEN [err |-> row[CHOOSE b \in 1 .. B : row[b].err # "none"].err]
    ELSE IF n = 0 THEN [err |-> "RuntimeError"]
    ELSE [err |-> "none",
          e |-> <<>> \o [k \in 1 .. n |-> <<>> \o [b \in 1 .. B |-> row[b].e[k]]],
          c |-> <<>> \o [k \in 1 .. n |-> <<>> \o [b \in 1 .. B |-> row[b].c[k]]]]

\* DialogueRNN.forward on a time-major batch: the stacked e and c.
RunnerForward(rcell, U, qmask, d, B) ==
    RunnerStack(<<>> \o [b \in 1 .. B |->
                    RunnerLoop(rcell, <<>> \o [k \in 1 .. Len(U) |-> U[k][b]],
                               <<>> \o [k \in 1 .. Len(U) |-> qmask[k][b]],
                               d, 1, RunnerLocals0)],
                Len(U), B)

\* Model.__init__: the forward and the backward runner, built from the same
\* arguments, and matchatt = MatchingAttention(D_e, D_e, att_type='general2').
ModelInit(D_h, D_g, D_p, party, context_attention, party_attention, D_a) ==
    LET rcell == DialogueRNNCellInit(D_h, D_g, D_p, party, context_attention,
                                     party_attention, D_a)
    IN IF rcell.err # "none" THEN [err |-> rcell.err]
       ELSE [err |-> "none", party_attention |-> party_attention,
             dialog_rnn_f |-> rcell, dialog_rnn_b |-> rcell,
             matchatt |-> MatchingAttentionInit(1, 1, NoneDim, "general2")]

\* torch.cat([emotions_f, emotions_b], dim=-1): the sizes must agree on
\* the time axis.
CatLast(f, b) ==
    IF Len(f) # Len(b) THEN [err |-> "RuntimeError"]
    ELSE [err |-> "none",
          v |-> <<>> \o [k \in 1 .. Len(f) |->
                  <<>> \o [i \in 1 .. Len(f[k]) |-> <<f[k][i], b[k][i]>>]]]

\* The condition of line 327 that selects the self-attention path.
UseSelfAttention(m, att2) == att2 /\ m.party_attention = "simple"

\* Lines 327-333 of Model.forward, up to the input of linear1: which
\* tensor the classification head is fed ("att": the self-attention
\* result, "raw": the concatenated emotions).  matchatt's transform takes
\* D_e features and is handed the 2 * D_e of a concatenated emotion vector,
\* so the self-attention call raises.
ModelHead(m, att2, emotions, n_f, n_b) ==
    IF emotions.err # "none"
    THEN [err |-> emotions.err, at |-> "cat", n_f |-> n_f, n_b |-> n_b]
    ELSE IF UseSelfAttention(m, att2)
    THEN [err |-> "RuntimeError", at |-> "matchatt"]
    ELSE [err |-> "none", head |-> "raw", hidden_in |-> emotions.v,
          n_f |-> n_f, n_b |-> n_b]

\* Lines 315-323: the dropout of the forward emotions, the reversal and
\* dropout of the backward emotions, and their concatenation.
ModelEmotions(m, umask, att2, d, f, bk) ==
    IF f.err # "none" THEN [err |-> f.err, at |-> "dialog_rnn_f"]
    ELSE IF bk.err # "none" THEN [err |-> bk.err, at |-> "dialog_rnn_b"]
    ELSE ModelHead(m, att2,
                   CatLast(<<>> \o [k \in 1 .. Len(f.e) |->
                              <<>> \o [b \in 1 .. Len(umask) |-> Dropout(f.e[k][b], d)]],
                           <<>> \o [k \in 1 .. Len(ReverseSeq(bk.e, umask)) |->
                              <<>> \o [b \in 1 .. Len(umask) |->
                                 Dropout(ReverseSeq(bk.e, umask)[k][b], d)]]),
                   Len(f.e), Len(ReverseSeq(bk.e, umask)))

\* Model.forward(U, qmask, umask, att2): the forward runner on the inputs,
\* the backward runner on the reversed inputs (lines 314-320).
ModelForward(m, U, qmask, umask, att2, d) ==
    ModelEmotions(m, umask, att2, d,
                  RunnerForward(m.dialog_rnn_f, U, qmask, d, Len(umask)),
                  RunnerForward(m.dialog_rnn_b, ReverseSeq(U, umask),
                                ReverseSeqOf(qmask, umask,
                                    <<>> \o [i \in 1 .. m.dialog_rnn_f.party |-> 0]),
                                d, Len(umask)))

\* The inputs of one forward call: T timesteps, B rows of the given valid
\* lengths, features and alternating speakers fixed by u0 and s0, zeros at
\* padded positions.
ModelU(T, lens, u0) ==
    <<>> \o [k \in 1 .. T |-> <<>> \o [b \in 1 .. Len(lens) |->
        IF k <= lens[b] THEN (u0 + k + b) % 2 ELSE 0]]

ModelQmask(T, lens, party, s0) ==
    <<>> \o [k \in 1 .. T |-> <<>> \o [b \in 1 .. Len(lens) |->
        <<>> \o [i \in 1 .. party |->
            IF k <= lens[b] /\ i = ((s0 + k) % party) + 1 THEN 1 ELSE 0]]]

\* Model(...)
ModelConstruct ==
    /\ model = Absent
    /\ \E D_h \in Dims, D_g \in Dims, D_p \in Dims, party \in 1 .. MaxParty,
          ca \in RunnerCtxArgs, pa \in RunnerPartyArgs, D_a \in {NoneDim, DefaultDa} :
         model' = ModelInit(D_h, D_g, D_p, party, ca, pa, D_a)
    /\ mres' = NoCall
    /\ UNCHANGED <<runnerVars, attVars, rev, loss>>

\* Model.forward(U, qmask, umask, att2).  forward assigns no attribute of
\* the model, so a call's result does not depend on earlier calls: each
\* model's calls are taken from the state after construction.
ModelForwardCall ==
    /\ model.err = "none"
    /\ mres = NoCall
    /\ \E T \in 1 .. MaxT, B \in 1 .. MaxBatch, att2 \in BOOLEAN, d \in ModelDrops,
          u0 \in Val, s0 \in 0 .. (model.dialog_rnn_f.party - 1) :
         \E lens \in [1 .. B -> 0 .. T] :
            \E r \in {ModelForward(model, ModelU(T, lens, u0),
                                   ModelQmask(T, lens, model.dialog_rnn_f.party, s0),
                                   PrefixMask(lens, T), att2, d)} :
               mres' = [att2 |-> att2, T |-> T, lens |-> lens] @@ r
    /\ UNCHANGED <<model, runnerVars, attVars, rev, loss>>

NextModel == ModelConstruct \/ ModelForwardCall

SpecModel == Init /\ [][NextModel]_vars

\* C10 (as claimed): whenever a forward call with att2 true reaches the
\* classification head, the head is fed the self-attention result, and
\* with att2 false the raw concatenated emotions; the flag alone decides,
\* for every attention-variant configuration.
C10_FlagAloneSelectsSelfAttention ==
    (mres.err = "none") =>
        mres.head = (IF mres.att2 THEN "att" ELSE "raw")

\* C14 (as claimed): in every forward call whose two runners returned, the
\* forward emotions and the re-reversed backward emotions have the same
\* number of timesteps, for every valid-length mask, and the concatenation
\* is defined.
C14_SameNumberOfTimesteps ==
    (mres.err # "nocall" /\ "n_f" \in DOMAIN mres) =>
        (mres.n_f = mres.n_b /\ mres.err = "none")

\* When some row is as long as the padded sequence, the two have the same
\* number of timesteps.
C14_FullRowSameNumberOfTimesteps ==
    (/\ mres.err # "nocall" /\ "n_f" \in DOMAIN mres
     /\ \E b \in DOMAIN mres.lens : mres.lens[b] = mres.T) =>
        mres.n_f = mres.n_b
====
